---- MODULE Spec2Model ----
(***************************************************************************)
(* latent_calendar: the event-to-calendar-vocabulary pipeline of           *)
(* latent_calendar/transformers.py (timestamp features, hour               *)
(* discretization, vocab encoding, aggregation, wide pivot, RawToVocab).   *)
(*                                                                         *)
(* Representation.                                                         *)
(*  - A table is a record [cols, rows]: cols the sequence of column names, *)
(*    rows a sequence of rows, each row a function from column name to     *)
(*    value.                                                               *)
(*  - A timestamp is [weekday, hour, minute, second, microsecond] (weekday *)
(*    1 = Monday .. 7 = Sunday, as dt.weekday() of narwhals numbers it).   *)
(*  - An hour value is [dtype, m]: dtype "float" or "int", m the value in  *)
(*    sixtieths of an hour (1.5 hours is m = 90), so that the floor        *)
(*    division and the Int64 cast are computed exactly.  The hour that the *)
(*    timestamp features derive has a third field, rest: the part of the   *)
(*    value below one minute, in microseconds.                             *)
(***************************************************************************)
EXTENDS Integers, Sequences, FiniteSets, TLC

\* latent_calendar.const, imported at transformers.py:24-31
DAYS_IN_WEEK == 7
HOURS_IN_DAY == 24
MINUTES_IN_DAY == 1440
MICROSECONDS_IN_SECOND == 1000000

\* ---- bounds of the model ------------------------------------------------
MaxEvents == 2          \* rows of an input batch
MaxId == 2              \* distinct values of the id column
MaxChanges == 1         \* attribute assignments after construction

\* ---- generic helpers ----------------------------------------------------
\* the sum of the elements lo .. hi of a sequence of numbers
RECURSIVE SumRange(_, _, _)
SumRange(s, lo, hi) ==
    IF lo > hi THEN 0
    ELSE IF lo = hi THEN s[lo]
    ELSE LET mid == (lo + hi) \div 2
         IN  SumRange(s, lo, mid) + SumRange(s, mid + 1, hi)

SumSeq(s) == SumRange(s, 1, Len(s))

Range(s) == {s[i] : i \in DOMAIN s}

Contains(s, x) == \E i \in DOMAIN s : s[i] = x

\* the values of the columns `names` of a row, as a tuple
KeyOf(row, names) == [i \in DOMAIN names |-> row[names[i]]]

\* DataFrame.with_columns(name = column), column holding one value per row:
\* a column of that name is replaced in place, a new one is appended after
\* the existing columns
\* (mutant) select: only the new column is kept
WithColumnOnly(df, name, column) ==
    [cols |-> << name >>,
     rows |-> [i \in DOMAIN df.rows |-> [c \in {name} |-> column[i]]]]

\* (mutant) a column that exists is left as it is
WithColumnKeep(df, name, column) ==
    [cols |-> IF Contains(df.cols, name) THEN df.cols ELSE Append(df.cols, name),
     rows |-> [i \in DOMAIN df.rows |->
                 [c \in (DOMAIN df.rows[i]) \cup {name} |->
                     IF c \in DOMAIN df.rows[i] THEN df.rows[i][c] ELSE column[i]]]]

WithColumn(df, name, column) ==
    [cols |-> IF Contains(df.cols, name) THEN df.cols ELSE Append(df.cols, name),
     rows |-> [i \in DOMAIN df.rows |->
                 [c \in (DOMAIN df.rows[i]) \cup {name} |->
                     IF c = name THEN column[i] ELSE df.rows[i][c]]]]



\* ---- timestamp features -------------------------------------------------
\* (mutant) the days since Monday are counted in
prop_into_day_dated(dt) ==
    [minute |-> (dt.weekday - 1) * MINUTES_IN_DAY
                  + dt.hour * (MINUTES_IN_DAY \div HOURS_IN_DAY) + dt.minute,
     micro |-> dt.second * MICROSECONDS_IN_SECOND + dt.microsecond]

\* prop_into_day: hour/24 + minute/1440 + second/86400 + microsecond/864e8.
\* The value is carried as two numerators: minute over MINUTES_IN_DAY (the
\* first two terms) and micro over the microseconds of a day (the last two).
prop_into_day(dt) ==
    [minute |-> dt.hour * (MINUTES_IN_DAY \div HOURS_IN_DAY) + dt.minute,
     micro |-> dt.second * MICROSECONDS_IN_SECOND + dt.microsecond]

\* prop_into_day_start * HOURS_IN_DAY: the hour of the day, m in sixtieths of
\* an hour and rest in microseconds
HourOfProp(prop) ==
    [dtype |-> "float",
     m |-> (prop.minute * HOURS_IN_DAY * 60) \div MINUTES_IN_DAY,
     rest |-> prop.micro]

\* (mutant) day_of_week counted from Sunday = 0
create_timestamp_features_sunday(df, timestamp_col) ==
    LET day_of_week == [i \in DOMAIN df.rows |->
                           df.rows[i][timestamp_col].weekday % DAYS_IN_WEEK]
        hour == [i \in DOMAIN df.rows |->
                    HourOfProp(prop_into_day(df.rows[i][timestamp_col]))]
    IN  WithColumn(WithColumn(df, "day_of_week", day_of_week), "hour", hour)

\* create_timestamp_features: day_of_week = weekday - 1, hour = prop * 24
create_timestamp_features(df, timestamp_col) ==
    LET day_of_week == [i \in DOMAIN df.rows |->
                           df.rows[i][timestamp_col].weekday - 1]
        hour == [i \in DOMAIN df.rows |->
                    HourOfProp(prop_into_day(df.rows[i][timestamp_col]))]
    IN  WithColumn(WithColumn(df, "day_of_week", day_of_week), "hour", hour)

\* ---- hour discretization ------------------------------------------------
\* (col // divisor) * divisor with divisor = 1 if minutes == 60 else
\* minutes / 60, then cast to Int64 when minutes % 60 == 0.  In sixtieths of
\* an hour the divisor is 60 when minutes == 60 and minutes otherwise.  The
\* divisor is a whole number of minutes, so the floor drops the part of the
\* hour below one minute (rest) and the result is [dtype, m].
\* (mutant) rounds to the nearest bin instead of flooring
DiscretizeValueRounded(v, minutes) ==
    LET divisor == IF minutes = 60 THEN 60 ELSE minutes
        rounded == ((v.m + divisor \div 2) \div divisor) * divisor
    IN  IF minutes % 60 = 0
        THEN [dtype |-> "int", m |-> (rounded \div 60) * 60]
        ELSE [dtype |-> v.dtype, m |-> rounded]

\* (mutant) the divisor is one hour whatever the bin width is
DiscretizeValueWholeHour(v, minutes) ==
    LET divisor == 60
        floored == (v.m \div divisor) * divisor
    IN  IF minutes % 60 = 0
        THEN [dtype |-> "int", m |-> (floored \div 60) * 60]
        ELSE [dtype |-> v.dtype, m |-> floored]

\* (mutant) the number of the bin is kept, not the hour it starts at
DiscretizeValueIndex(v, minutes) ==
    LET divisor == IF minutes = 60 THEN 60 ELSE minutes
        floored == (v.m \div divisor) * 60
    IN  IF minutes % 60 = 0
        THEN [dtype |-> "int", m |-> (floored \div 60) * 60]
        ELSE [dtype |-> v.dtype, m |-> floored]

DiscretizeValue(v, minutes) ==
    LET divisor == IF minutes = 60 THEN 60 ELSE minutes
        floored == (v.m \div divisor) * divisor
    IN  IF minutes % 60 = 0
        THEN [dtype |-> "int", m |-> (floored \div 60) * 60]
        ELSE [dtype |-> v.dtype, m |-> floored]

create_discretized_hour(X, col, minutes) ==
    LET binned == [i \in DOMAIN X.rows |-> DiscretizeValue(X.rows[i][col], minutes)]
    IN  WithColumn(X, col, binned)

\* ---- vocab encoding -----------------------------------------------------
\* decimal digits of r/60 for 0 <= r < 60 (at most n digits, at least one)
RECURSIVE FracDigits(_, _)
FracDigits(r, n) ==
    LET d == (r * 10) \div 60
        rest == (r * 10) % 60
    IN  IF rest = 0 \/ n <= 1 THEN ToString(d)
        ELSE ToString(d) \o FracDigits(rest, n - 1)

\* cast(nw.String) of an hour value: 13 -> "13", 1.5 -> "1.5", 2.0 -> "2.0"
CastString(v) ==
    IF v.dtype = "int" THEN ToString(v.m \div 60)
    ELSE ToString(v.m \div 60) \o "." \o FracDigits(v.m % 60, 16)

\* when(col < 10).then(concat_str(["0", cast])).otherwise(cast), for each of
\* the two columns, joined with separator " "
day_of_week_part(d) == IF d < 10 THEN "0" \o ToString(d) ELSE ToString(d)

\* (mutant) the hour is not padded
hour_part_unpadded(v) == CastString(v)

hour_part(v) == IF v.m < 10 * 60 THEN "0" \o CastString(v) ELSE CastString(v)

VocabToken(d, v) == day_of_week_part(d) \o " " \o hour_part(v)

create_vocab(X, hour_col, day_of_week_col) ==
    LET vocab == [i \in DOMAIN X.rows |->
                     VocabToken(X.rows[i][day_of_week_col], X.rows[i][hour_col])]
    IN  WithColumn(X, "vocab", vocab)

\* ---- feature pipeline ---------------------------------------------------
\* a Pipeline is [raised, steps]; a step is [name, timestamp_col, col, minutes]
Step(name, timestamp_col, col, minutes) ==
    [name |-> name, timestamp_col |-> timestamp_col, col |-> col, minutes |-> minutes]

\* (mutant) the check is made after the list of transformers is built, and
\* only guards the vocab step
create_timestamp_feature_pipeline_late(timestamp_col, discretize, minutes, vocab) ==
    [raised |-> IF vocab /\ ~discretize THEN "ValueError" ELSE "",
     steps |-> << Step("timestamp_features", timestamp_col, "", 0) >>
               \o (IF discretize
                   THEN << Step("binning", "", "hour", minutes) >> ELSE << >>)]

\* (mutant) the vocab step is put before the binning step
create_timestamp_feature_pipeline_vocab_first(timestamp_col, discretize, minutes, vocab) ==
    IF vocab /\ ~discretize
    THEN [raised |-> "ValueError", steps |-> << >>]
    ELSE [raised |-> "",
          steps |-> << Step("timestamp_features", timestamp_col, "", 0) >>
                    \o (IF vocab
                        THEN << Step("vocab_creation", "", "hour", 0) >> ELSE << >>)
                    \o (IF discretize
                        THEN << Step("binning", "", "hour", minutes) >> ELSE << >>)]

\* create_timestamp_feature_pipeline: the ValueError is raised before the
\* list of transformers is built
create_timestamp_feature_pipeline(timestamp_col, discretize, minutes, vocab) ==
    IF vocab /\ ~discretize
    THEN [raised |-> "ValueError", steps |-> << >>]
    ELSE [raised |-> "",
          steps |-> << Step("timestamp_features", timestamp_col, "", 0) >>
                    \o (IF discretize
                        THEN << Step("binning", "", "hour", minutes) >> ELSE << >>)
                    \o (IF vocab
                        THEN << Step("vocab_creation", "", "hour", 0) >> ELSE << >>)]

\* the transform of one step of the pipeline
StepTransform(step, X) ==
    CASE step.name = "timestamp_features" ->
            create_timestamp_features(X, step.timestamp_col)
      [] step.name = "binning" ->
            create_discretized_hour(X, step.col, step.minutes)
      [] step.name = "vocab_creation" ->
            create_vocab(X, step.col, "day_of_week")

\* Pipeline.transform: the steps in order
RECURSIVE PipelineTransform(_, _)
PipelineTransform(steps, X) ==
    IF steps = << >> THEN X
    ELSE PipelineTransform(Tail(steps), StepTransform(Head(steps), X))

StepNames(steps) == [i \in DOMAIN steps |-> steps[i].name]

\* Pipeline.fit, called at transformers.py:536: every step but the last is
\* fit and run on X (fit_transform), the last one is only fit
PipelineFitRuns(steps) ==
    IF steps = << >> THEN << >> ELSE StepNames(SubSeq(steps, 1, Len(steps) - 1))

\* ---- aggregation --------------------------------------------------------
\* `cols` is [kind, names]: kind "None" for cols=None, "list" otherwise
ColNames(cols) == IF cols.kind = "None" THEN << >> ELSE cols.names

\* (mutant) a group holds its first row only
RowsOfKeyFirst(rows, groups, key) ==
    SubSeq(SelectSeq(rows, LAMBDA r : KeyOf(r, groups) = key), 1, 1)

\* the rows of a table whose group columns hold `key`, in table order
RowsOfKey(rows, groups, key) == SelectSeq(rows, LAMBDA r : KeyOf(r, groups) = key)

\* (mutant) the value of the first row of the group instead of the sum
ColumnFirst(rows, c) == rows[1][c]

\* nw.col(c).sum() over the rows of one group
ColumnSum(rows, c) == SumSeq([i \in DOMAIN rows |-> rows[i][c]])

\* (mutant) a num_events column that the input has is summed as it is
aggregate_vocab_keep(X, groups, cols) ==
    LET stats == ColNames(cols)
        Xn == IF Contains(X.cols, "num_events") THEN X
              ELSE WithColumn(X, "num_events", [i \in DOMAIN X.rows |-> 1])
        keys == {KeyOf(r, groups) : r \in Range(Xn.rows)}
        values == << "num_events" >> \o stats
        agg(key) ==
            LET members == RowsOfKey(Xn.rows, groups, key)
            IN  [c \in Range(groups) \cup Range(values) |->
                    IF Contains(values, c)
                    THEN ColumnSum(members, c)
                    ELSE members[1][c]]
    IN  IF \E i \in DOMAIN groups : ~Contains(Xn.cols, groups[i])
        THEN [raised |-> "ColumnNotFound", index |-> << >>, cols |-> << >>, rows |-> {}]
        ELSE IF \E i \in DOMAIN stats : ~Contains(Xn.cols, stats[i])
        THEN [raised |-> "ColumnNotFound", index |-> << >>, cols |-> << >>, rows |-> {}]
        ELSE [raised |-> "", index |-> groups, cols |-> values,
              rows |-> {agg(key) : key \in keys}]

\* aggregate_vocab: num_events = lit(1) on every row, group_by(groups),
\* sum of num_events and of every column of cols, index set to the groups.
\* The long table is [raised, index, cols, rows]; the row order of a group_by
\* is not defined, so rows is a set.
aggregate_vocab(X, groups, cols) ==
    LET stats == ColNames(cols)
        Xn == WithColumn(X, "num_events", [i \in DOMAIN X.rows |-> 1])
        keys == {KeyOf(r, groups) : r \in Range(Xn.rows)}
        values == << "num_events" >> \o stats
        agg(key) ==
            LET members == RowsOfKey(Xn.rows, groups, key)
            IN  [c \in Range(groups) \cup Range(values) |->
                    IF Contains(values, c)
                    THEN ColumnSum(members, c)
                    ELSE members[1][c]]
    IN  IF \E i \in DOMAIN groups : ~Contains(Xn.cols, groups[i])
        THEN [raised |-> "ColumnNotFound", index |-> << >>, cols |-> << >>, rows |-> {}]
        ELSE IF \E i \in DOMAIN stats : ~Contains(Xn.cols, stats[i])
        THEN [raised |-> "ColumnNotFound", index |-> << >>, cols |-> << >>, rows |-> {}]
        ELSE [raised |-> "", index |-> groups, cols |-> values,
              rows |-> {agg(key) : key \in keys}]

\* ---- full vocabulary ----------------------------------------------------
\* str.zfill(2) of the text of a number
ZeroFill2(str) == IF Len(str) < 2 THEN "0" \o str ELSE str

\* create_full_vocab(days_in_week, minutes, as_multiindex), of
\* latent_calendar.const: every (day_of_week, slot) pair, day by day and slot
\* by slot, a slot named by the hour it starts at; pairs when as_multiindex,
\* else the canonical string "<dow> <hour>" of two zero-padded fields
create_full_vocab(days_in_week, minutes, as_multiindex) ==
    LET slots == MINUTES_IN_DAY \div minutes
        start(s) == [dtype |-> IF minutes % 60 = 0 THEN "int" ELSE "float",
                     m |-> s * minutes]
        token(d, s) ==
            IF as_multiindex THEN << d, start(s) >>
            ELSE ZeroFill2(ToString(d)) \o " " \o ZeroFill2(CastString(start(s)))
    IN  [i \in 1 .. (days_in_week * slots) |->
            token((i - 1) \div slots, (i - 1) % slots)]

\* ---- wide pivot ---------------------------------------------------------
\* Index labels are matched by value and not by dtype (2 and 2.0 are the same
\* label, a string never equals a number): the value of one index level ...
LevelValue(name, v) ==
    IF name = "vocab" THEN << "s", v >>
    ELSE IF name = "hour" THEN << "n", v.m >>
    ELSE << "n", v * 60 >>

RECURSIVE LabelOfRow(_, _)
LabelOfRow(r, names) ==
    IF names = << >> THEN << >>
    ELSE LevelValue(Head(names), r[Head(names)]) \o LabelOfRow(r, Tail(names))

\* ... and of a token of the full vocabulary
TokenValue(c, multiindex) ==
    IF multiindex THEN << "n", c[1] * 60, "n", c[2].m >> ELSE << "s", c >>

\* (mutant) always the last level only
unstack_levels_last(multiindex) == 1

\* level = [-2, -1] if self.multiindex else -1: how many index levels unstack
unstack_levels(multiindex) == IF multiindex THEN 2 ELSE 1

\* (mutant) no column is added for a token that was not observed
reindex_observed(columns, labels, multiindex) ==
    SelectSeq(columns, LAMBDA c : TokenValue(c, multiindex) \in labels)

\* X_res.reindex(self.columns, axis=1): the columns of the result are the
\* target columns, whatever labels the unstacked table had
reindex(columns, labels, multiindex) == columns

\* LongToWide.transform of a long table X: select self.col, unstack the last
\* two (multiindex) or the last (flat) index levels, reindex the columns
\* against the full vocabulary, fill the gaps with 0, cast to int.
\* The wide table is [raised, index, columns, rows, cells].
LongToWide_transform(lw, X) ==
    LET n == Len(X.index)
        k == unstack_levels(lw.multiindex)
        rowNames == SubSeq(X.index, 1, n - k)
        colNames == SubSeq(X.index, n - k + 1, n)
        rowKey(r) == KeyOf(r, rowNames)
        \* X.loc[:, col].unstack(level): a cell exists where a long row does
        rowKeys == {rowKey(r) : r \in X.rows}
        at(g, v) == {r \in X.rows : rowKey(r) = g /\ LabelOfRow(r, colNames) = v}
        duplicated == \E r1, r2 \in X.rows :
                          /\ r1 # r2
                          /\ rowKey(r1) = rowKey(r2)
                          /\ LabelOfRow(r1, colNames) = LabelOfRow(r2, colNames)
        \* reindex(self.columns, axis=1), fillna(0), astype(int)
        labels == {LabelOfRow(r, colNames) : r \in X.rows}
        columns == reindex(create_full_vocab(DAYS_IN_WEEK, lw.minutes, lw.multiindex),
                           labels, lw.multiindex)
        filled(g, c) ==
            LET found == at(g, TokenValue(c, lw.multiindex))
            IN  IF found = {} THEN 0 ELSE (CHOOSE r \in found : TRUE)[lw.col]
        bad(err) == [raised |-> err, index |-> << >>, columns |-> << >>,
                     rows |-> {}, cells |-> << >>]
    IN  IF ~Contains(X.cols, lw.col) THEN bad("KeyError")
        ELSE IF n <= k THEN bad("ShapeError")
        ELSE IF duplicated THEN bad("DuplicateIndex")
        ELSE [raised |-> "", index |-> rowNames, columns |-> columns,
              rows |-> rowKeys,
              cells |-> [g \in rowKeys |->
                           [i \in DOMAIN columns |-> filled(g, columns[i])]]]

\* ---- RawToVocab ---------------------------------------------------------
VARIABLES
    self,               \* the constructor parameters, attributes of the object
    features,           \* self.features, the fitted feature pipeline
    aggregation,        \* self.aggregation, the fitted VocabAggregation
    widen_transformer,  \* self.widen_transformer, the fitted LongToWide
    ret,                \* what the last call returned or raised
    trace,              \* the stages the last call ran on its input, in order
    arg,                \* the table the last call was given
    caller_table,       \* the caller's table object after the last call
    last_fit,           \* history: the last call of fit, [called, ok, params]
    changes,            \* history: attribute assignments since construction
    call                \* the last application of a pipeline function

vars == << self, features, aggregation, widen_transformer, ret, trace, arg,
           caller_table, last_fit, changes, call >>

\* an attribute that has not been assigned yet
NoFeatures == [set |-> FALSE, steps |-> << >>]
NoAggregation == [set |-> FALSE, groups |-> << >>,
                  cols |-> [kind |-> "None", names |-> << >>]]
NoWiden == [set |-> FALSE, col |-> "", minutes |-> 0, multiindex |-> FALSE]
NoLong == [raised |-> "", index |-> << >>, cols |-> << >>, rows |-> {}]
NoWide == [raised |-> "", index |-> << >>, columns |-> << >>, rows |-> {},
           cells |-> << >>]
NoTable == [cols |-> << >>, rows |-> << >>]

\* (mutant) the pivot is given the first column of cols to unstack
RawToVocab_fit_widen_cols(slf, st, X) ==
    LET pipe == create_timestamp_feature_pipeline(
                    slf.timestamp_col, TRUE, slf.minutes, ~slf.as_multiindex)
        feats == [set |-> TRUE, steps |-> pipe.steps]
        ran == PipelineFitRuns(pipe.steps)
        groups == << slf.id_col >>
                  \o (IF slf.additional_groups.kind = "None"
                      THEN << >> ELSE slf.additional_groups.names)
                  \o (IF slf.as_multiindex
                      THEN << "day_of_week", "hour" >> ELSE << "vocab" >>)
        agg == [set |-> TRUE, groups |-> groups, cols |-> slf.cols]
        lw == [set |-> TRUE,
               col |-> IF slf.cols.kind = "list" THEN slf.cols.names[1]
                       ELSE "num_events",
               minutes |-> slf.minutes,
               multiindex |-> slf.as_multiindex]
    IN  IF pipe.raised # ""
        THEN [features |-> st.features, aggregation |-> st.aggregation,
              widen_transformer |-> st.widen_transformer,
              raised |-> "ConfigError", ran |-> << >>]
        ELSE IF slf.additional_groups.kind \notin {"None", "list"}
        THEN [features |-> feats, aggregation |-> st.aggregation,
              widen_transformer |-> st.widen_transformer,
              raised |-> "ConfigError", ran |-> ran]
        ELSE IF ~slf.widen
        THEN [features |-> feats, aggregation |-> agg,
              widen_transformer |-> st.widen_transformer,
              raised |-> "", ran |-> ran]
        ELSE [features |-> feats, aggregation |-> agg,
              widen_transformer |-> lw,
              raised |-> "", ran |-> ran]

\* RawToVocab.fit.  `st` is [features, aggregation, widen_transformer]; the
\* result is the three attributes after the call, what was raised, and the
\* pipeline steps that self.features.fit(X) ran on X.
RawToVocab_fit(slf, st, X) ==
    LET pipe == create_timestamp_feature_pipeline(
                    slf.timestamp_col, TRUE, slf.minutes, ~slf.as_multiindex)
        feats == [set |-> TRUE, steps |-> pipe.steps]
        ran == PipelineFitRuns(pipe.steps)
        groups == << slf.id_col >>
                  \o (IF slf.additional_groups.kind = "None"
                      THEN << >> ELSE slf.additional_groups.names)
                  \o (IF slf.as_multiindex
                      THEN << "day_of_week", "hour" >> ELSE << "vocab" >>)
        agg == [set |-> TRUE, groups |-> groups, cols |-> slf.cols]
        lw == [set |-> TRUE, col |-> "num_events", minutes |-> slf.minutes,
               multiindex |-> slf.as_multiindex]
    IN  IF pipe.raised # ""
        THEN [features |-> st.features, aggregation |-> st.aggregation,
              widen_transformer |-> st.widen_transformer,
              raised |-> "ConfigError", ran |-> << >>]
        ELSE IF slf.additional_groups.kind \notin {"None", "list"}
        THEN [features |-> feats, aggregation |-> st.aggregation,
              widen_transformer |-> st.widen_transformer,
              raised |-> "ConfigError", ran |-> ran]
        ELSE IF ~slf.widen
        THEN [features |-> feats, aggregation |-> agg,
              widen_transformer |-> st.widen_transformer,
              raised |-> "", ran |-> ran]
        ELSE [features |-> feats, aggregation |-> agg,
              widen_transformer |-> lw,
              raised |-> "", ran |-> ran]

\* RawToVocab.transform: features, aggregation, then the pivot when
\* self.widen.  The result is [raised, kind, long, wide, ran].
RawToVocab_transform(slf, st, X) ==
    LET result(raised, kind, long, wide, ran) ==
            [raised |-> raised, kind |-> kind, long |-> long, wide |-> wide,
             ran |-> ran]
        stages == StepNames(st.features.steps)
        X_trans == PipelineTransform(st.features.steps, X)
        X_agg == aggregate_vocab(X_trans, st.aggregation.groups, st.aggregation.cols)
        X_wide == LongToWide_transform(st.widen_transformer, X_agg)
    IN  IF ~st.features.set
        THEN result("AttributeError", "", NoLong, NoWide, << >>)
        ELSE IF ~st.aggregation.set
        THEN result("AttributeError", "", NoLong, NoWide, stages)
        ELSE IF X_agg.raised # ""
        THEN result(X_agg.raised, "", NoLong, NoWide, Append(stages, "aggregation"))
        ELSE IF ~slf.widen
        THEN result("", "long", X_agg, NoWide, Append(stages, "aggregation"))
        ELSE IF ~st.widen_transformer.set
        THEN result("AttributeError", "", NoLong, NoWide, Append(stages, "aggregation"))
        ELSE IF X_wide.raised # ""
        THEN result(X_wide.raised, "", NoLong, NoWide,
                    stages \o << "aggregation", "widen" >>)
        ELSE result("", "wide", NoLong, X_wide, stages \o << "aggregation", "widen" >>)

\* ---- raw_to_aggregate -----------------------------------------------------
\* (mutant) no additional group reaches the aggregation
UnpackedNone(additional_groups) == << >>

\* *(additional_groups or []): a list gives its names, None nothing, and a
\* string its characters
Unpacked(additional_groups) ==
    CASE additional_groups.kind = "None" -> << >>
      [] additional_groups.kind = "list" -> additional_groups.names
      [] OTHER -> << "g", "r", "p" >>

\* A frame is an eager table [cols, rows] or a lazy frame [source, plan]: the
\* table it was made from and the stages composed on it so far, which run
\* when the caller collects.
LazyFrame(source) == [source |-> source, plan |-> << >>]

IsLazy(df) == "plan" \in DOMAIN df

\* (mutant) the aggregation collects the frame before it groups
FrameOpsCollecting(stage) ==
    CASE stage = "aggregate_vocab" ->
            << "collect", "with_columns", "group_by", "agg", "maybe_set_index" >>
      [] OTHER -> << "with_columns" >>

\* the frame operations that the body of each stage function calls
FrameOps(stage) ==
    CASE stage = "create_timestamp_features" -> << "with_columns" >>
      [] stage = "create_discretized_hour" -> << "with_columns" >>
      [] stage = "create_vocab" -> << "with_columns" >>
      [] stage = "aggregate_vocab" ->
            << "with_columns", "group_by", "agg", "maybe_set_index" >>

\* the frame operations that evaluate the plan of a lazy frame
Materializing == {"collect"}

\* a stage function applied to an eager table
ApplyStage(op, table) ==
    CASE op.f = "create_timestamp_features" ->
            create_timestamp_features(table, op.timestamp_col)
      [] op.f = "create_discretized_hour" ->
            create_discretized_hour(table, op.col, op.minutes)
      [] op.f = "create_vocab" ->
            create_vocab(table, op.hour_col, op.day_of_week_col)
      [] op.f = "aggregate_vocab" ->
            aggregate_vocab(table, op.groups, op.cols)

\* collect(): the stages of the plan run on the source, in order
RECURSIVE RunPlan(_, _)
RunPlan(plan, table) ==
    IF plan = << >> THEN table
    ELSE RunPlan(Tail(plan), ApplyStage(Head(plan), table))

CollectFrame(lf) == RunPlan(lf.plan, lf.source)

\* df.pipe(stage, ...): on an eager table the stage runs; on a lazy frame it
\* is added to the plan, unless one of its frame operations materializes
Pipe(df, op) ==
    IF ~IsLazy(df) THEN ApplyStage(op, df)
    ELSE IF \E i \in DOMAIN FrameOps(op.f) : FrameOps(op.f)[i] \in Materializing
    THEN ApplyStage(op, CollectFrame(df))
    ELSE [df EXCEPT !.plan = Append(@, op)]

\* raw_to_aggregate: timestamp features, discretization, vocab, aggregation
\* by [id_col, "day_of_week", "hour", *additional_groups]
raw_to_aggregate(df, id_col, timestamp_col, minutes, additional_groups, cols) ==
    LET featured == Pipe(df, [f |-> "create_timestamp_features",
                              timestamp_col |-> timestamp_col])
        binned == Pipe(featured, [f |-> "create_discretized_hour",
                                  col |-> "hour", minutes |-> minutes])
        encoded == Pipe(binned, [f |-> "create_vocab", hour_col |-> "hour",
                                 day_of_week_col |-> "day_of_week"])
    IN  Pipe(encoded,
             [f |-> "aggregate_vocab",
              groups |-> << id_col, "day_of_week", "hour" >>
                           \o Unpacked(additional_groups),
              cols |-> cols])

\* ---- inputs -------------------------------------------------------------
\* the timestamps of the sampled events: Friday 12:00, Friday 13:55 (of
\* tests/test_transformers.py) and Monday 01:30
Stamp(weekday, hour, minute, second, microsecond) ==
    [weekday |-> weekday, hour |-> hour, minute |-> minute,
     second |-> second, microsecond |-> microsecond]

StampSeq == << Stamp(1, 1, 30, 0, 0), Stamp(5, 12, 0, 0, 0), Stamp(5, 13, 55, 0, 0) >>

Stamps == Range(StampSeq)

InputCols == << "id", "datetime", "grp", "amt" >>

Events == { [id |-> i, datetime |-> t, grp |-> g, amt |-> 3] :
                i \in 1 .. MaxId, t \in Stamps, g \in {1, 2} }

Table(rows) == [cols |-> InputCols, rows |-> rows]

\* No stage reads the position of a row, so one row order is sampled for
\* every multiset of events: the rows sorted by (id, timestamp, grp).
Rank(e) == (e.id * Len(StampSeq)
              + (CHOOSE i \in DOMAIN StampSeq : StampSeq[i] = e.datetime)) * 2 + e.grp

Batches == { b \in UNION { [1 .. n -> Events] : n \in 0 .. MaxEvents } :
                \A i \in DOMAIN b : \A j \in DOMAIN b :
                    i < j => Rank(b[i]) <= Rank(b[j]) }

\* the tables of the fit / transform sessions: two events of one id
LifeTables == { Table(b) : b \in
                  { << [id |-> 1, datetime |-> StampSeq[1], grp |-> 1, amt |-> 3],
                       [id |-> 1, datetime |-> StampSeq[s], grp |-> 2, amt |-> 3] >> :
                    s \in {1, 3} } }

MinutesValues == {60, 120, 30}

\* additional_groups: None, a list of column names, or a bare string
GroupsValues == { [kind |-> "None", names |-> << >>],
                  [kind |-> "list", names |-> << "grp" >>],
                  [kind |-> "str", names |-> << "grp" >>] }

ColsValues == { [kind |-> "None", names |-> << >>],
                [kind |-> "list", names |-> << "amt" >>] }

ParamsOver(minutes) ==
    [id_col : {"id"}, timestamp_col : {"datetime"}, minutes : minutes,
     additional_groups : GroupsValues, cols : ColsValues,
     as_multiindex : BOOLEAN, widen : BOOLEAN]

Params == ParamsOver(MinutesValues)

Stages == [features |-> features, aggregation |-> aggregation,
           widen_transformer |-> widen_transformer]

NoCall == [f |-> "none"]

Returned(op, raised, kind, long, wide) ==
    [op |-> op, raised |-> raised, kind |-> kind, long |-> long, wide |-> wide]

\* RawToVocab.__init__: the parameters are stored, nothing is fitted
Constructed(params) ==
    /\ self \in params
    /\ features = NoFeatures
    /\ aggregation = NoAggregation
    /\ widen_transformer = NoWiden
    /\ ret = Returned("__init__", "", "", NoLong, NoWide)
    /\ trace = << >>
    /\ arg = NoTable
    /\ caller_table = NoTable
    /\ last_fit = [called |-> FALSE, ok |-> FALSE, params |-> self]
    /\ changes = 0
    /\ call = NoCall

Init == Constructed(Params)

\* TransformerMixin.fit_transform on a newly constructed transformer:
\* self.fit(X).transform(X)
FitTransform(X) ==
    LET f == RawToVocab_fit(self, Stages, X)
        st == [features |-> f.features, aggregation |-> f.aggregation,
               widen_transformer |-> f.widen_transformer]
        t == RawToVocab_transform(self, st, X)
    IN  /\ ret.op = "__init__"
        /\ last_fit' = [called |-> TRUE, ok |-> f.raised = "", params |-> self]
        /\ features' = f.features
        /\ aggregation' = f.aggregation
        /\ widen_transformer' = f.widen_transformer
        /\ arg' = X
        /\ caller_table' = X
        /\ IF f.raised # ""
           THEN /\ ret' = Returned("fit_transform", f.raised, "", NoLong, NoWide)
                /\ trace' = f.ran
           ELSE /\ ret' = Returned("fit_transform", t.raised, t.kind, t.long, t.wide)
                /\ trace' = f.ran \o t.ran
        /\ UNCHANGED << self, changes, call >>

\* raw_to_aggregate called with the parameters of the transformer; it has no
\* as_multiindex and no widen parameter: its output is structured and long
RawToAggregate(X) ==
    LET long == raw_to_aggregate(X, self.id_col, self.timestamp_col, self.minutes,
                                 self.additional_groups, self.cols)
    IN  /\ ret.op = "__init__"
        /\ self.as_multiindex /\ ~self.widen
        /\ ret' = IF long.raised # ""
                  THEN Returned("raw_to_aggregate", long.raised, "", NoLong, NoWide)
                  ELSE Returned("raw_to_aggregate", "", "long", long, NoWide)
        /\ trace' = << "timestamp_features", "binning", "vocab_creation", "aggregation" >>
        /\ arg' = X
        /\ caller_table' = X
        /\ UNCHANGED << self, features, aggregation, widen_transformer, last_fit,
                        changes, call >>

Next ==
    \/ \E b \in Batches : FitTransform(Table(b))
    \/ \E b \in Batches : RawToAggregate(Table(b))

Spec == Init /\ [][Next]_vars

\* ---- fit / transform sessions -------------------------------------------
\* an assignment to one parameter attribute of the transformer
SetAttr ==
    /\ changes < MaxChanges
    /\ \E p \in ParamsOver({60, 120}) :
          /\ p # self
          /\ \/ p = [self EXCEPT !.minutes = p.minutes]
             \/ p = [self EXCEPT !.additional_groups = p.additional_groups]
             \/ p = [self EXCEPT !.cols = p.cols]
             \/ p = [self EXCEPT !.as_multiindex = p.as_multiindex]
             \/ p = [self EXCEPT !.widen = p.widen]
          /\ self' = p
    /\ changes' = changes + 1
    /\ ret' = Returned("setattr", "", "", NoLong, NoWide)
    /\ trace' = << >>
    /\ arg' = NoTable
    /\ caller_table' = NoTable
    /\ UNCHANGED << features, aggregation, widen_transformer, last_fit, call >>

Fit(X) ==
    LET f == RawToVocab_fit(self, Stages, X)
    IN  /\ features' = f.features
        /\ aggregation' = f.aggregation
        /\ widen_transformer' = f.widen_transformer
        /\ ret' = Returned("fit", f.raised, IF f.raised = "" THEN "self" ELSE "",
                           NoLong, NoWide)
        /\ trace' = f.ran
        /\ arg' = X
        /\ caller_table' = X
        /\ last_fit' = [called |-> TRUE, ok |-> f.raised = "", params |-> self]
        /\ UNCHANGED << self, changes, call >>

\* (mutant) transform validates additional_groups before it runs
TransformValidating(X) ==
    LET t == RawToVocab_transform(self, Stages, X)
        bad == self.additional_groups.kind \notin {"None", "list"}
    IN  /\ ret' = IF bad THEN Returned("transform", "ConfigError", "", NoLong, NoWide)
                  ELSE Returned("transform", t.raised, t.kind, t.long, t.wide)
        /\ trace' = IF bad THEN << >> ELSE t.ran
        /\ arg' = X
        /\ caller_table' = X
        /\ UNCHANGED << self, features, aggregation, widen_transformer,
                        last_fit, changes, call >>

\* (mutant) the feature columns are assigned into the caller's table
TransformInPlace(X) ==
    LET t == RawToVocab_transform(self, Stages, X)
    IN  /\ ret' = Returned("transform", t.raised, t.kind, t.long, t.wide)
        /\ trace' = t.ran
        /\ arg' = X
        /\ caller_table' = IF features.set
                           THEN PipelineTransform(features.steps, X) ELSE X
        /\ UNCHANGED << self, features, aggregation, widen_transformer,
                        last_fit, changes, call >>

\* RawToVocab.transform on the caller's table X.  No stage assigns into its
\* argument: with_columns, group_by / agg, loc, unstack, reindex, fillna and
\* astype each return a new table, so the caller's object is X afterwards.
Transform(X) ==
    LET t == RawToVocab_transform(self, Stages, X)
    IN  /\ ret' = Returned("transform", t.raised, t.kind, t.long, t.wide)
        /\ trace' = t.ran
        /\ arg' = X
        /\ caller_table' = X
        /\ UNCHANGED << self, features, aggregation, widen_transformer,
                        last_fit, changes, call >>

LifeInit == Constructed(ParamsOver({60, 120}))

LifeNext ==
    \/ SetAttr
    \/ \E X \in LifeTables : Fit(X)
    \/ \E X \in LifeTables : Transform(X)

LifeSpec == LifeInit /\ [][LifeNext]_vars

\* ---- properties of the aggregation and of the wide matrix ---------------
\* the group columns of the configuration: id_col and the additional groups
GroupNames == << self.id_col >> \o ColNames(self.additional_groups)

\* day and time of day (in minutes) of an input event
EventDay(e) == e[self.timestamp_col].weekday - 1
EventMinute(e) == e[self.timestamp_col].hour * 60 + e[self.timestamp_col].minute

\* the token the feature stages give an input event: (day_of_week, hour bin),
\* or the vocab string in flat mode
EventToken(e, flat) ==
    LET bin == DiscretizeValue([dtype |-> "float", m |-> EventMinute(e)], self.minutes)
    IN  IF flat THEN << VocabToken(EventDay(e), bin) >>
        ELSE << EventDay(e), bin >>

\* the (group key, token) combination of an input event, in the order of the
\* index of the long table
EventKey(e, long) ==
    IF ret.op = "raw_to_aggregate"
    THEN << e[self.id_col] >> \o EventToken(e, FALSE)
         \o KeyOf(e, ColNames(self.additional_groups))
    ELSE KeyOf(e, GroupNames) \o EventToken(e, ~self.as_multiindex)

InputRows == {i \in DOMAIN arg.rows : TRUE}

\* C1: the long table of the aggregation has exactly one row for every
\* (group key, token) combination that occurs in the input, its num_events is
\* the number of input events of that combination, and it has no other row.
LongTableCounts ==
    ret.kind = "long" =>
        LET long == ret.long
            occurring == {EventKey(arg.rows[i], long) : i \in InputRows}
            count(key) == Cardinality({i \in InputRows :
                                          EventKey(arg.rows[i], long) = key})
        IN  /\ \A key \in occurring :
                  \E r \in long.rows :
                      /\ KeyOf(r, long.index) = key
                      /\ r["num_events"] = count(key)
                      /\ \A r2 \in long.rows : KeyOf(r2, long.index) = key => r2 = r
            /\ \A r \in long.rows : KeyOf(r, long.index) \in occurring

\* two events of one combination are counted in one row, both by RawToVocab
\* and by raw_to_aggregate
LongTableCountsWitness ==
    /\ ret.kind = "long"
    /\ \E r \in ret.long.rows : r["num_events"] = 2
    /\ Cardinality(ret.long.rows) < Len(arg.rows)

\* the sum of all cells of the wide matrix
RECURSIVE SumOver(_, _)
SumOver(f, S) ==
    IF S = {} THEN 0
    ELSE LET x == CHOOSE y \in S : TRUE IN f[x] + SumOver(f, S \ {x})

WideTotal(wide) ==
    SumOver([g \in wide.rows |-> SumSeq(wide.cells[g])], wide.rows)

\* C2: the sum of all cells of the wide matrix is the number of input rows
CountsConserved ==
    ret.kind = "wide" => WideTotal(ret.wide) = Len(arg.rows)

\* the slot of the full vocabulary at column i: its day and its slot index
SlotsPerDay == MINUTES_IN_DAY \div self.minutes
ColumnDay(i) == (i - 1) \div SlotsPerDay
ColumnSlot(i) == (i - 1) % SlotsPerDay

FallsOn(e, i) ==
    /\ EventDay(e) = ColumnDay(i)
    /\ ColumnSlot(i) * self.minutes <= EventMinute(e)
    /\ EventMinute(e) < (ColumnSlot(i) + 1) * self.minutes

\* C3: cell (g, t) is the number of input events of group g that fall on
\* token t (0 when there is none), for every group and every token
CellsCountEvents ==
    ret.kind = "wide" =>
        \A g \in ret.wide.rows : \A i \in DOMAIN ret.wide.columns :
            ret.wide.cells[g][i] =
                Cardinality({j \in InputRows :
                                /\ KeyOf(arg.rows[j], GroupNames) = g
                                /\ FallsOn(arg.rows[j], i)})

\* C4: the columns of the wide matrix are the full vocabulary of the
\* configuration, 7 * (1440 / minutes) columns in its order, whatever the
\* input holds
ColumnsAreFullVocab ==
    ret.kind = "wide" =>
        /\ Len(ret.wide.columns) = DAYS_IN_WEEK * (MINUTES_IN_DAY \div self.minutes)
        /\ ret.wide.columns
             = create_full_vocab(DAYS_IN_WEEK, self.minutes, self.as_multiindex)
        /\ \A g \in ret.wide.rows : Len(ret.wide.cells[g]) = Len(ret.wide.columns)

\* a wide matrix of an input with an event whose token is no column
ColumnsAreFullVocabWitness ==
    /\ ret.kind = "wide"
    /\ Len(arg.rows) > 0
    /\ WideTotal(ret.wide) < Len(arg.rows)

\* C5: the wide matrix has one row per distinct group key of the input; with
\* id_col alone as many rows as distinct ids
OneRowPerGroup ==
    ret.kind = "wide" =>
        /\ ret.wide.rows = {KeyOf(arg.rows[i], GroupNames) : i \in InputRows}
        /\ self.additional_groups.kind = "None" =>
              Cardinality(ret.wide.rows)
                = Cardinality({arg.rows[i][self.id_col] : i \in InputRows})

\* two events of one id in two additional groups: two rows
OneRowPerGroupWitness ==
    /\ ret.kind = "wide"
    /\ self.additional_groups.kind = "list"
    /\ Cardinality(ret.wide.rows) = 2
    /\ Cardinality({arg.rows[i][self.id_col] : i \in InputRows}) = 1

\* C7: with additional_groups neither None nor a list, fit fails with the
\* configuration error before any stage has run on the input table
GroupsCheckedBeforeTableOps ==
    (ret.op \in {"fit", "fit_transform"}
        /\ last_fit.params.additional_groups.kind = "str") =>
            /\ ret.raised = "ConfigError"
            /\ trace = << >>

\* C8: a configuration error is raised by fit only, never by a transform
ConfigErrorsOnlyAtFit ==
    ret.raised = "ConfigError" => ret.op = "fit"

\* a transform that returned after a successful fit, on a transformer whose
\* additional_groups has since been set to a string
ConfigErrorsOnlyAtFitWitness ==
    /\ ret.op = "transform"
    /\ ret.raised = ""
    /\ last_fit.ok
    /\ self.additional_groups.kind = "str"

\* what fit followed by transform returns for parameters p and table X
FitThenTransform(p, X) ==
    LET f == RawToVocab_fit(p, [features |-> NoFeatures,
                                aggregation |-> NoAggregation,
                                widen_transformer |-> NoWiden], X)
        t == RawToVocab_transform(p, [features |-> f.features,
                                      aggregation |-> f.aggregation,
                                      widen_transformer |-> f.widen_transformer], X)
    IN  Returned("transform", t.raised, t.kind, t.long, t.wide)

\* C9: after a successful fit, transform returns what the parameters at fit
\* time determine, whatever has been assigned to the attributes since
FitFreezesSchema ==
    (ret.op = "transform" /\ last_fit.ok) =>
        ret = FitThenTransform(last_fit.params, arg)

\* ---- the pipeline functions on their own --------------------------------
\* one application of a function to sampled arguments, recorded in `call`
\* the hour values of the sampled inputs: every minute of the day
HourValues == { [dtype |-> "float", m |-> m] : m \in 0 .. (MINUTES_IN_DAY - 1) }

\* bin widths that are multiples of 60 and that divide 60
BinWidths == {60, 120, 180, 240, 15, 20, 30}

\* HourDiscretizer(col="hour", minutes).transform of a one-row table
CallDiscretize ==
    /\ call = NoCall
    /\ \E h \in HourValues, minutes \in BinWidths :
        LET X == [cols |-> << "hour" >>, rows |-> << [c \in {"hour"} |-> h] >>]
        IN  /\ call' = [f |-> "create_discretized_hour", hour |-> h,
                        minutes |-> minutes,
                        out |-> create_discretized_hour(X, "hour", minutes)]
            /\ UNCHANGED << self, features, aggregation, widen_transformer, ret,
                            trace, arg, caller_table, last_fit, changes >>

CallCreatePipeline ==
    /\ call = NoCall
    /\ \E discretize \in BOOLEAN, vocab \in BOOLEAN, minutes \in BinWidths :
        /\ call' = [f |-> "create_timestamp_feature_pipeline",
                    discretize |-> discretize, create_vocab |-> vocab,
                    minutes |-> minutes,
                    out |-> create_timestamp_feature_pipeline(
                                "datetime", discretize, minutes, vocab)]
        /\ UNCHANGED << self, features, aggregation, widen_transformer, ret,
                        trace, arg, caller_table, last_fit, changes >>

\* the values of the hour column that reach the vocab encoding: the integer
\* hours of minutes = 60 and the half-hour bin starts of minutes = 30
VocabHours ==
    { [dtype |-> "int", m |-> h * 60] : h \in 0 .. (HOURS_IN_DAY - 1) }
        \cup { [dtype |-> "float", m |-> k * 30] : k \in 0 .. (2 * HOURS_IN_DAY - 1) }

\* what the docstring of create_vocab calls equivalent: both columns cast to
\* String and filled with str.zfill(2), joined with one space
create_vocab_zfill(X, hour_col, day_of_week_col) ==
    LET vocab == [i \in DOMAIN X.rows |->
                     ZeroFill2(ToString(X.rows[i][day_of_week_col]))
                     \o " " \o ZeroFill2(CastString(X.rows[i][hour_col]))]
    IN  WithColumn(X, "vocab", vocab)

\* VocabTransformer().transform of a one-row table of day_of_week and hour
CallCreateVocab ==
    /\ call = NoCall
    /\ \E d \in 0 .. (DAYS_IN_WEEK - 1), h \in VocabHours :
        LET X == [cols |-> << "day_of_week", "hour" >>,
                  rows |-> << [c \in {"day_of_week", "hour"} |->
                                 IF c = "hour" THEN h ELSE d] >>]
        IN  /\ call' = [f |-> "create_vocab", day_of_week |-> d, hour |-> h,
                        X |-> X,
                        out |-> create_vocab(X, "hour", "day_of_week")]
            /\ UNCHANGED << self, features, aggregation, widen_transformer, ret,
                            trace, arg, caller_table, last_fit, changes >>

\* the timestamps of the sampled tables: every day of the week at midnight,
\* at 01:30 and at the last microsecond of the day
TimesOfDay == { << 0, 0, 0, 0 >>, << 1, 30, 0, 0 >>,
                << 23, 59, 59, MICROSECONDS_IN_SECOND - 1 >> }

FnStamps == { Stamp(w, t[1], t[2], t[3], t[4]) :
                 w \in 1 .. DAYS_IN_WEEK, t \in TimesOfDay }

\* the values of the caller's own columns named hour and day_of_week: 25.0
\* and 9, which no timestamp gives
CallerHour == [dtype |-> "float", m |-> 25 * 60, rest |-> 0]

CallerDay == 9

\* tables of an id and a timestamp column, and one-row tables that already
\* have a column named hour or day_of_week
FnTables ==
    { [cols |-> << "id", "datetime" >>, rows |-> rows] :
        rows \in UNION { [1 .. n -> [id : {1}, datetime : FnStamps]] :
                            n \in 0 .. MaxEvents } }
      \cup { [cols |-> << "id", "hour", "datetime" >>, rows |-> << r >>] :
                r \in [id : {1}, hour : {CallerHour}, datetime : FnStamps] }
      \cup { [cols |-> << "day_of_week", "id", "datetime" >>, rows |-> << r >>] :
                r \in [day_of_week : {CallerDay}, id : {1}, datetime : FnStamps] }

\* CalendarTimestampFeatures(timestamp_col="datetime").fit_transform(X)
CallTimestampFeatures ==
    /\ call = NoCall
    /\ \E X \in FnTables :
        /\ call' = [f |-> "CalendarTimestampFeatures", X |-> X,
                    discretize |-> FALSE, create_vocab |-> FALSE,
                    out |-> create_timestamp_features(X, "datetime")]
        /\ UNCHANGED << self, features, aggregation, widen_transformer, ret,
                        trace, arg, caller_table, last_fit, changes >>

\* create_timestamp_feature_pipeline("datetime", discretize, minutes,
\* create_vocab).fit_transform(X): every step is fit and run in order
CallPipelineFitTransform ==
    /\ call = NoCall
    /\ \E X \in FnTables, discretize \in BOOLEAN, vocab \in BOOLEAN,
          minutes \in {60, 30} :
        LET pipe == create_timestamp_feature_pipeline("datetime", discretize,
                                                      minutes, vocab)
        IN  /\ pipe.raised = ""
            /\ call' = [f |-> "Pipeline", X |-> X,
                        discretize |-> discretize, create_vocab |-> vocab,
                        minutes |-> minutes,
                        out |-> PipelineTransform(pipe.steps, X)]
            /\ UNCHANGED << self, features, aggregation, widen_transformer, ret,
                            trace, arg, caller_table, last_fit, changes >>

\* the `by` argument of the accessors: a column name or a list of them
ByValues == { [kind |-> "str", names |-> << "id" >>],
              [kind |-> "list", names |-> << "id" >>],
              [kind |-> "list", names |-> << "id", "grp" >>] }

\* by if isinstance(by, str) else by[0]
ById(by) == by.names[1]

\* None if isinstance(by, str) else by[1:]
ByGroups(by) ==
    IF by.kind = "str" THEN [kind |-> "None", names |-> << >>]
    ELSE [kind |-> "list", names |-> Tail(by.names)]

\* PolarsLazyFrameAccessor.timestamp_features on a LazyFrame of X
LazyTimestampFeatures(X, timestamp_col, minutes) ==
    LET featured == Pipe(LazyFrame(X), [f |-> "create_timestamp_features",
                                        timestamp_col |-> timestamp_col])
        binned == Pipe(featured, [f |-> "create_discretized_hour",
                                  col |-> "hour", minutes |-> minutes])
    IN  Pipe(binned, [f |-> "create_vocab", hour_col |-> "hour",
                      day_of_week_col |-> "day_of_week"])

\* PolarsLazyFrameAccessor.aggregate_events on a LazyFrame of X
LazyAggregateEvents(X, by, timestamp_col, minutes) ==
    raw_to_aggregate(LazyFrame(X), ById(by), timestamp_col, minutes,
                     ByGroups(by), [kind |-> "None", names |-> << >>])

\* PolarsDataFrameAccessor.aggregate_events on X: RawToVocab with
\* widen=False, fit_transform
EagerAggregateEvents(X, by, timestamp_col, minutes, as_multiindex) ==
    FitThenTransform([id_col |-> ById(by), timestamp_col |-> timestamp_col,
                      minutes |-> minutes, additional_groups |-> ByGroups(by),
                      cols |-> [kind |-> "None", names |-> << >>],
                      as_multiindex |-> as_multiindex, widen |-> FALSE], X)

CallLazyTimestampFeatures ==
    /\ call = NoCall
    /\ \E b \in Batches, minutes \in MinutesValues :
        /\ call' = [f |-> "LazyFrame.timestamp_features", X |-> Table(b),
                    minutes |-> minutes, collected |-> FALSE,
                    out |-> LazyTimestampFeatures(Table(b), "datetime", minutes)]
        /\ UNCHANGED << self, features, aggregation, widen_transformer, ret,
                        trace, arg, caller_table, last_fit, changes >>

CallLazyAggregateEvents ==
    /\ call = NoCall
    /\ \E b \in Batches, by \in ByValues, minutes \in MinutesValues :
        /\ call' = [f |-> "LazyFrame.aggregate_events", X |-> Table(b),
                    by |-> by, minutes |-> minutes, collected |-> FALSE,
                    out |-> LazyAggregateEvents(Table(b), by, "datetime", minutes)]
        /\ UNCHANGED << self, features, aggregation, widen_transformer, ret,
                        trace, arg, caller_table, last_fit, changes >>

\* the caller collects the frame an accessor returned
Collect ==
    /\ call.f \in {"LazyFrame.timestamp_features", "LazyFrame.aggregate_events"}
    /\ ~call.collected
    /\ call' = [call EXCEPT !.collected = TRUE,
                            !.out = IF IsLazy(call.out)
                                    THEN CollectFrame(call.out) ELSE call.out]
    /\ UNCHANGED << self, features, aggregation, widen_transformer, ret,
                    trace, arg, caller_table, last_fit, changes >>

\* PandasDataFrameAccessor.widen: the index must be a MultiIndex (two levels
\* or more), then LongToWide(...).fit_transform
PandasWiden(X, column, minutes, multiindex) ==
    IF Len(X.index) < 2
    THEN [NoWide EXCEPT !.raised = "ValueError"]
    ELSE LongToWide_transform([set |-> TRUE, col |-> column, minutes |-> minutes,
                               multiindex |-> multiindex], X)

\* the index columns of the sampled long tables: the two well-formed ones
\* (structured and flat), single-level ones, the token levels without a
\* group key, the order of raw_to_aggregate with an additional group, and
\* the token levels swapped
WidenIndexes == { << "id", "day_of_week", "hour" >>, << "id", "vocab" >>,
                  << "vocab" >>, << "id" >>, << "day_of_week", "hour" >>,
                  << "id", "day_of_week", "hour", "grp" >>,
                  << "id", "hour", "day_of_week" >> }

\* an aggregated table with the given index columns
LongTableOf(X, index) ==
    aggregate_vocab(
        PipelineTransform(
            create_timestamp_feature_pipeline("datetime", TRUE, 60, TRUE).steps, X),
        index, [kind |-> "None", names |-> << >>])

\* df.cal.widen("num_events", multiindex=...) or
\* LongToWide(multiindex=...).transform(df) on an aggregated table
CallWiden ==
    /\ call = NoCall
    /\ \E T \in LifeTables, index \in WidenIndexes, multiindex \in BOOLEAN,
          accessor \in BOOLEAN :
        LET X == LongTableOf(T, index)
            lw == [set |-> TRUE, col |-> "num_events", minutes |-> 60,
                   multiindex |-> multiindex]
        IN  /\ call' = [f |-> "LongToWide", X |-> X, multiindex |-> multiindex,
                        accessor |-> accessor,
                        out |-> IF accessor
                                THEN PandasWiden(X, "num_events", 60, multiindex)
                                ELSE LongToWide_transform(lw, X)]
            /\ UNCHANGED << self, features, aggregation, widen_transformer, ret,
                            trace, arg, caller_table, last_fit, changes >>

\* ---- html.py: long format of a weekly calendar --------------------------
\* the number of values of an hourly calendar, 7 days of 24 hours: the
\* literal 168 of html.py
EXPECTED_VALUES == 168

\* An array-like argument is [ndim, rows]: a one-dimensional array holds its
\* values in the one element of rows, a matrix holds one element per row.
\* np.array(calendar_data).ravel(): the values row by row
RECURSIVE RavelRows(_, _)
RavelRows(rows, n) ==
    IF n = 0 THEN << >> ELSE RavelRows(rows, n - 1) \o rows[n]

Ravel(calendar_data) == RavelRows(calendar_data.rows, Len(calendar_data.rows))

\* latent_calendar.plot.iterate.iterate_long_array: one CalendarData(day,
\* start, end, value) for each value, hour by hour within a day and day by
\* day, the hours as floats
iterate_long_array(values) ==
    [i \in DOMAIN values |->
        [day |-> (i - 1) \div HOURS_IN_DAY,
         start |-> [dtype |-> "float", m |-> ((i - 1) % HOURS_IN_DAY) * 60],
         end |-> [dtype |-> "float", m |-> (((i - 1) % HOURS_IN_DAY) + 1) * 60],
         value |-> values[i]]]

\* Series.astype(int) of an hour value: the fraction is cut off
AsTypeInt(v) == v.m \div 60

\* the result of a conversion that raised
NoFrame(raised) == [raised |-> raised, cols |-> << >>, rows |-> << >>]

\* (mutant) the Sunday start shifts the days back instead of forward
wide_to_long_format_back(calendar_data, monday_start) ==
    LET values == Ravel(calendar_data)
        df == iterate_long_array(values)
    IN  IF Len(values) # EXPECTED_VALUES
        THEN NoFrame("ValueError: Expected 168 values")
        ELSE [raised |-> "",
              cols |-> << "day_of_week", "hour", "value" >>,
              rows |-> [i \in DOMAIN df |->
                          [day_of_week |-> IF monday_start THEN df[i].day
                                           ELSE (df[i].day + 6) % 7,
                           hour |-> AsTypeInt(df[i].start),
                           value |-> df[i].value]]]

\* (mutant) the length check lets an array of more than 168 values through
wide_to_long_format_atleast(calendar_data, monday_start) ==
    LET values == Ravel(calendar_data)
        df == iterate_long_array(values)
    IN  IF Len(values) < EXPECTED_VALUES
        THEN NoFrame("ValueError: Expected 168 values")
        ELSE [raised |-> "",
              cols |-> << "day_of_week", "hour", "value" >>,
              rows |-> [i \in DOMAIN df |->
                          [day_of_week |-> IF monday_start THEN df[i].day
                                           ELSE (df[i].day + 1) % 7,
                           hour |-> AsTypeInt(df[i].start),
                           value |-> df[i].value]]]

\* wide_to_long_format(calendar_data, monday_start): the length check, the
\* frame of the CalendarData records with day and start renamed and end
\* dropped, the hour cast to int, the days shifted by one for a Sunday start
wide_to_long_format(calendar_data, monday_start) ==
    LET values == Ravel(calendar_data)
        df == iterate_long_array(values)
    IN  IF Len(values) # EXPECTED_VALUES
        THEN NoFrame("ValueError: Expected 168 values")
        ELSE [raised |-> "",
              cols |-> << "day_of_week", "hour", "value" >>,
              rows |-> [i \in DOMAIN df |->
                          [day_of_week |-> IF monday_start THEN df[i].day
                                           ELSE (df[i].day + 1) % 7,
                           hour |-> AsTypeInt(df[i].start),
                           value |-> df[i].value]]]

\* A pandas frame of the charts is a table [cols, rows] with the fields
\* index (one label per row) and index_name ("" for an unnamed index).
\* row.values / df.iloc[i]: the values of a row in column order
RowValues(df, i) == [k \in DOMAIN df.cols |-> df.rows[i][df.cols[k]]]

\* str(idx) of an index label
StrOfLabel(idx) == IF idx.kind = "int" THEN ToString(idx.v) ELSE idx.v

\* pd.concat(long_dfs, ignore_index=True) of frames of equal length
ConcatFrames(long_dfs, len) ==
    [j \in 1 .. (Len(long_dfs) * len) |->
        long_dfs[((j - 1) \div len) + 1][((j - 1) % len) + 1]]

\* dataframe_to_long_format(df_wide, group_col, monday_start): the column
\* check, then each row converted by wide_to_long_format and labelled with
\* the text of its index label, the frames concatenated (pd.concat raises
\* ValueError when there is no frame) and the columns put in order
dataframe_to_long_format(df_wide, group_col, monday_start) ==
    LET n_cols == Len(df_wide.cols)
        long_dfs == [r \in DOMAIN df_wide.rows |->
            LET df_row_long == wide_to_long_format(
                    [ndim |-> 1, rows |-> << RowValues(df_wide, r) >>],
                    monday_start)
            IN  [i \in DOMAIN df_row_long.rows |->
                    [c \in {group_col, "day_of_week", "hour", "value"} |->
                        IF c = group_col THEN StrOfLabel(df_wide.index[r])
                        ELSE df_row_long.rows[i][c]]]]
    IN  IF n_cols # EXPECTED_VALUES
        THEN NoFrame("ValueError: Expected 168 columns")
        ELSE IF Len(long_dfs) = 0
        THEN NoFrame("ValueError: No objects to concatenate")
        ELSE [raised |-> "",
              cols |-> << group_col, "day_of_week", "hour", "value" >>,
              rows |-> ConcatFrames(long_dfs, EXPECTED_VALUES)]

\* the sampled arrays: 0, 1, 2, ... of several lengths around 168, a
\* 168-value array of repeating values, and matrices of 7 rows
Arange(n) == [i \in 1 .. n |-> i - 1]

ArrayLengths == {0, 1, 100, 167, 168, 169, 200}

Arrays ==
    { [ndim |-> 1, rows |-> << Arange(n) >>] : n \in ArrayLengths }
    \cup { [ndim |-> 1, rows |-> << [i \in 1 .. EXPECTED_VALUES |-> (i * i) % 5] >>] }
    \cup { [ndim |-> 2,
            rows |-> [d \in 1 .. DAYS_IN_WEEK |->
                        [h \in 1 .. w |-> 100 * d + h]]] : w \in {23, 24} }

\* wide_to_long_format(calendar_data, monday_start)
CallWideToLong ==
    /\ call = NoCall
    /\ \E a \in Arrays, monday_start \in BOOLEAN :
        /\ call' = [f |-> "wide_to_long_format", values |-> Ravel(a),
                    monday_start |-> monday_start,
                    out |-> wide_to_long_format(a, monday_start)]
        /\ UNCHANGED << self, features, aggregation, widen_transformer, ret,
                        trace, arg, caller_table, last_fit, changes >>

\* the sampled wide frames: rows of n_cols values under the labels of index.
\* The column labels 0 .. n_cols - 1 are carried as their text.
WideFrame(n_cols, index, index_name) ==
    LET cols == [k \in 1 .. n_cols |-> ToString(k - 1)]
    IN  [cols |-> cols,
         rows |-> [r \in DOMAIN index |->
                     [c \in Range(cols) |->
                         10 * r + ((CHOOSE k \in DOMAIN cols : cols[k] = c) % 3)]],
         index |-> index, index_name |-> index_name]

FrameWidths == {100, 167, 168, 169}

\* no row, one row, labelled rows and rows numbered by a RangeIndex
FrameIndexes ==
    { << >>,
      << [kind |-> "str", v |-> "group_a"] >>,
      << [kind |-> "str", v |-> "group_a"], [kind |-> "str", v |-> "group_b"] >>,
      << [kind |-> "int", v |-> 0], [kind |-> "int", v |-> 1],
         [kind |-> "int", v |-> 2] >> }

WideFrames == { WideFrame(n, index, name) :
                  n \in FrameWidths, index \in FrameIndexes,
                  name \in {"", "category"} }

\* dataframe_to_long_format(df_wide, group_col, monday_start)
CallDataFrameToLong ==
    /\ call = NoCall
    /\ \E X \in WideFrames, group_col \in {"group", "rider_type"},
          monday_start \in BOOLEAN :
        /\ call' = [f |-> "dataframe_to_long_format", X |-> X,
                    group_col |-> group_col, monday_start |-> monday_start,
                    out |-> dataframe_to_long_format(X, group_col, monday_start)]
        /\ UNCHANGED << self, features, aggregation, widen_transformer, ret,
                        trace, arg, caller_table, last_fit, changes >>

\* ---- html.py: create_calendar_chart -------------------------------------
\* nw.from_native(calendar_data, eager_only=True) accepts a frame and raises
\* TypeError for a Series, an array or a list
IsFrame(calendar_data) == "cols" \in DOMAIN calendar_data

\* DataFrame.rename({old: new})
Rename(df, old, new) ==
    [cols |-> [k \in DOMAIN df.cols |-> IF df.cols[k] = old THEN new ELSE df.cols[k]],
     rows |-> [i \in DOMAIN df.rows |->
                 [c \in ((DOMAIN df.rows[i]) \ {old}) \cup {new} |->
                     IF c = new THEN df.rows[i][old] ELSE df.rows[i][c]]]]

NoChart == [data |-> << >>, day_labels |-> << >>]

\* the chart of a long frame: alt.Chart(df_long) with the day labels
ChartOf(df_long, monday_start) ==
    IF df_long.raised # "" THEN [raised |-> df_long.raised, chart |-> NoChart]
    ELSE [raised |-> "",
          chart |-> [data |-> [cols |-> df_long.cols, rows |-> df_long.rows],
                     day_labels |->
                        IF monday_start
                        THEN << "Mon", "Tue", "Wed", "Thu", "Fri", "Sat", "Sun" >>
                        ELSE << "Sun", "Mon", "Tue", "Wed", "Thu", "Fri", "Sat" >>]]

\* (mutant) the width of the frame is looked at before its column names
create_calendar_chart_width_first(calendar_data, monday_start) ==
    IF IsFrame(calendar_data)
    THEN LET columns == Range(calendar_data.cols)
             has_value == "value" \in columns
             has_num_events == "num_events" \in columns
         IN  IF Len(calendar_data.cols) = EXPECTED_VALUES
             THEN IF Len(calendar_data.rows) = 1
                  THEN ChartOf(wide_to_long_format(
                          [ndim |-> 1, rows |-> << RowValues(calendar_data, 1) >>],
                          monday_start), monday_start)
                  ELSE ChartOf(dataframe_to_long_format(calendar_data,
                          IF calendar_data.index_name # ""
                          THEN calendar_data.index_name ELSE "group",
                          monday_start), monday_start)
             ELSE IF {"day_of_week", "hour"} \subseteq columns
                     /\ (has_value \/ has_num_events)
             THEN IF has_num_events /\ ~has_value
                  THEN ChartOf([raised |-> ""] @@ Rename(calendar_data, "num_events", "value"),
                               monday_start)
                  ELSE ChartOf([raised |-> "", cols |-> calendar_data.cols,
                                rows |-> calendar_data.rows], monday_start)
             ELSE ChartOf(NoFrame("ValueError: DataFrame must have either"),
                          monday_start)
    ELSE ChartOf(wide_to_long_format(calendar_data, monday_start), monday_start)

\* create_calendar_chart(calendar_data, monday_start=...): a frame is taken
\* as long format by its column names, else as wide format by its width,
\* else refused; what is not a frame (the TypeError of from_native is caught)
\* goes to wide_to_long_format.  The ValueError of a conversion is not
\* caught.  The pandas branch of the except clause is for frames that
\* narwhals does not take and is not modelled.
create_calendar_chart(calendar_data, monday_start) ==
    IF IsFrame(calendar_data)
    THEN LET columns == Range(calendar_data.cols)
             has_value == "value" \in columns
             has_num_events == "num_events" \in columns
         IN  IF {"day_of_week", "hour"} \subseteq columns
                /\ (has_value \/ has_num_events)
             THEN IF has_num_events /\ ~has_value
                  THEN ChartOf([raised |-> ""] @@ Rename(calendar_data, "num_events", "value"),
                               monday_start)
                  ELSE ChartOf([raised |-> "", cols |-> calendar_data.cols,
                                rows |-> calendar_data.rows], monday_start)
             ELSE IF Len(calendar_data.cols) = EXPECTED_VALUES
             THEN IF Len(calendar_data.rows) = 1
                  THEN ChartOf(wide_to_long_format(
                          [ndim |-> 1, rows |-> << RowValues(calendar_data, 1) >>],
                          monday_start), monday_start)
                  ELSE ChartOf(dataframe_to_long_format(calendar_data,
                          IF calendar_data.index_name # ""
                          THEN calendar_data.index_name ELSE "group",
                          monday_start), monday_start)
             ELSE ChartOf(NoFrame("ValueError: DataFrame must have either"),
                          monday_start)
    ELSE ChartOf(wide_to_long_format(calendar_data, monday_start), monday_start)

\* the sampled frames with named columns: two rows, each column holding its
\* own values
NamedFrame(cols) ==
    [cols |-> cols,
     rows |-> [r \in 1 .. 2 |->
                 [c \in Range(cols) |->
                     10 * r + (CHOOSE k \in DOMAIN cols : cols[k] = c)]],
     index |-> << [kind |-> "int", v |-> 0], [kind |-> "int", v |-> 1] >>,
     index_name |-> ""]

\* the long formats, frames that lack one of the long format's columns, and
\* a frame of other columns (of tests/test_html.py)
NamedColumns ==
    { << "day_of_week", "hour", "value" >>,
      << "day_of_week", "hour", "num_events" >>,
      << "day_of_week", "hour", "num_events", "value" >>,
      << "group", "day_of_week", "hour", "value" >>,
      << "day_of_week", "hour" >>,
      << "day_of_week", "value" >>,
      << "hour", "num_events" >>,
      << "col1", "col2" >> }

\* frames of exactly 168 columns, the first of them named like the columns
\* of the long format
WideNamed(names) ==
    NamedFrame(names \o [k \in 1 .. (EXPECTED_VALUES - Len(names)) |-> ToString(k - 1)])

ChartFrames ==
    { NamedFrame(cols) : cols \in NamedColumns }
    \cup WideFrames
    \cup { WideNamed(names) : names \in { << "day_of_week", "hour", "value" >>,
                                           << "day_of_week", "hour" >> } }

\* create_calendar_chart(calendar_data, monday_start=...)
CallCreateCalendarChart ==
    /\ call = NoCall
    /\ \E X \in ChartFrames \cup Arrays, monday_start \in BOOLEAN :
        /\ call' = [f |-> "create_calendar_chart", X |-> X,
                    monday_start |-> monday_start,
                    out |-> create_calendar_chart(X, monday_start)]
        /\ UNCHANGED << self, features, aggregation, widen_transformer, ret,
                        trace, arg, caller_table, last_fit, changes >>

\* ---- aggregate_vocab on an aggregated table -----------------------------
\* an aggregated table as a table of columns (a polars result, or a pandas
\* result after reset_index()): the group columns, then the sums, the rows
\* in one of their orders
ResetIndex(long) ==
    [cols |-> long.index \o long.cols,
     rows |-> CHOOSE rows \in [1 .. Cardinality(long.rows) -> long.rows] :
                 Range(rows) = long.rows]

\* the group columns of the second aggregation: those of the first, the
\* first without the additional group, and the id alone
RegroupValues == { << "id", "grp", "day_of_week", "hour" >>,
                   << "id", "day_of_week", "hour" >>,
                   << "id" >> }

\* aggregate_vocab(df_agg, groups, cols=["amt"]) on the table df_agg that
\* aggregate_vocab returned for groups id, grp, day_of_week, hour
CallAggregateVocab ==
    /\ call = NoCall
    /\ \E b \in Batches, groups \in RegroupValues :
        LET cols == [kind |-> "list", names |-> << "amt" >>]
            X_trans == PipelineTransform(
                create_timestamp_feature_pipeline("datetime", TRUE, 60, FALSE).steps,
                Table(b))
            df_agg == ResetIndex(aggregate_vocab(
                X_trans, << "id", "grp", "day_of_week", "hour" >>, cols))
        IN  /\ call' = [f |-> "aggregate_vocab", X |-> df_agg, groups |-> groups,
                        out |-> aggregate_vocab(df_agg, groups, cols)]
            /\ UNCHANGED << self, features, aggregation, widen_transformer, ret,
                            trace, arg, caller_table, last_fit, changes >>

\* the defaults of RawToVocab.__init__
DefaultParams ==
    [id_col |-> "id", timestamp_col |-> "datetime", minutes |-> 60,
     additional_groups |-> [kind |-> "None", names |-> << >>],
     cols |-> [kind |-> "None", names |-> << >>],
     as_multiindex |-> TRUE, widen |-> TRUE]

FnInit == Constructed({DefaultParams})

FnNext ==
    \/ CallDiscretize
    \/ CallCreatePipeline
    \/ CallCreateVocab
    \/ CallTimestampFeatures
    \/ CallPipelineFitTransform
    \/ CallLazyTimestampFeatures
    \/ CallLazyAggregateEvents
    \/ Collect
    \/ CallWiden
    \/ CallWideToLong
    \/ CallDataFrameToLong
    \/ CallCreateCalendarChart
    \/ CallAggregateVocab

FnSpec == FnInit /\ [][FnNext]_vars

\* C6: create_timestamp_feature_pipeline raises the ValueError exactly when
\* create_vocab is set and discretize is not, and then no stage has been built
VocabNeedsDiscretize ==
    call.f = "create_timestamp_feature_pipeline" =>
        /\ (call.out.raised = "ValueError") <=> (call.create_vocab /\ ~call.discretize)
        /\ call.out.raised = "ValueError" => call.out.steps = << >>
        /\ call.out.raised = "" => Len(call.out.steps) >= 1

VocabNeedsDiscretizeWitness ==
    /\ call.f = "create_timestamp_feature_pipeline"
    /\ call.create_vocab /\ ~call.discretize
    /\ call.out.raised = "ValueError"

\* C10: for minutes a multiple of 60 the discretized hour is the integer
\* floor(hour / (minutes/60)) * (minutes/60); with minutes = 60 it is the
\* floor of the hour, one of 0 .. 23
WholeHourBins ==
    (call.f = "create_discretized_hour" /\ call.minutes % 60 = 0) =>
        LET k == call.minutes \div 60
            out == call.out.rows[1]["hour"]
        IN  /\ out.dtype = "int"
            /\ out.m = 60 * ((call.hour.m \div (60 * k)) * k)
            /\ call.minutes = 60 =>
                  /\ out.m \div 60 \in 0 .. 23
                  /\ out.m = 60 * (call.hour.m \div 60)

\* hour 3 with minutes = 120 becomes 2
WholeHourBinsWitness ==
    /\ call.f = "create_discretized_hour"
    /\ call.minutes = 120
    /\ call.hour.m = 3 * 60
    /\ call.out.rows[1]["hour"] = [dtype |-> "int", m |-> 2 * 60]

\* C11: for minutes dividing 60 the discretized hour b is a multiple of
\* minutes/60 with b <= hour < b + minutes/60, and an hour on a bin boundary
\* is returned unchanged
SubHourBins ==
    (call.f = "create_discretized_hour" /\ 60 % call.minutes = 0) =>
        LET out == call.out.rows[1]["hour"]
        IN  /\ out.m % call.minutes = 0
            /\ out.m <= call.hour.m
            /\ call.hour.m < out.m + call.minutes
            /\ call.hour.m % call.minutes = 0 => out.m = call.hour.m
            /\ call.minutes < 60 => out.dtype = call.hour.dtype

\* hour 1.5 with minutes = 15 stays 1.5, and 1:50 with minutes = 20 is 1:40
SubHourBinsWitness ==
    /\ call.f = "create_discretized_hour"
    /\ \/ /\ call.minutes = 15
          /\ call.hour.m = 90
          /\ call.out.rows[1]["hour"] = [dtype |-> "float", m |-> 90]
       \/ /\ call.minutes = 20
          /\ call.hour.m = 110
          /\ call.out.rows[1]["hour"] = [dtype |-> "float", m |-> 100]

\* the two decimal digits of a number below 100
TwoDigits(n) == ToString(n \div 10) \o ToString(n % 10)

\* C12: for day_of_week in 0..6 and an integer hour in 0..23 the vocab token
\* is the two-digit day, one space and the two-digit hour (5 characters), and
\* no other (day, hour) pair has the same token
VocabTokenFormat ==
    (call.f = "create_vocab" /\ call.hour.dtype = "int") =>
        LET token == call.out.rows[1]["vocab"]
        IN  /\ token = TwoDigits(call.day_of_week) \o " "
                          \o TwoDigits(call.hour.m \div 60)
            /\ Len(token) = 5
            /\ \A d \in 0 .. (DAYS_IN_WEEK - 1), h \in 0 .. (HOURS_IN_DAY - 1) :
                  VocabToken(d, [dtype |-> "int", m |-> h * 60]) = token
                      => (d = call.day_of_week /\ h * 60 = call.hour.m)

\* day 4 and hour 13 give "04 13", day 1 and hour 0 give "01 00"
VocabTokenFormatWitness ==
    /\ call.f = "create_vocab"
    /\ call.hour.dtype = "int"
    /\ \/ /\ call.day_of_week = 4 /\ call.hour.m = 13 * 60
          /\ call.out.rows[1]["vocab"] = "04 13"
       \/ /\ call.day_of_week = 1 /\ call.hour.m = 0
          /\ call.out.rows[1]["vocab"] = "01 00"

\* the timestamp feature stage or the feature pipeline has run on call.X
FeaturesRan == call.f \in {"CalendarTimestampFeatures", "Pipeline"}

\* C13: day_of_week of every row is the weekday number of its timestamp
\* (1 = Monday .. 7 = Sunday) minus one, a value in 0 .. 6, after the
\* timestamp feature stage and after every later stage of the pipeline
DayOfWeekFromMonday ==
    FeaturesRan =>
        \A i \in DOMAIN call.X.rows :
            /\ call.out.rows[i]["day_of_week"]
                 = call.X.rows[i]["datetime"].weekday - 1
            /\ call.out.rows[i]["day_of_week"] \in 0 .. 6
            /\ call.X.rows[i]["datetime"].weekday = 1
                  => call.out.rows[i]["day_of_week"] = 0
            /\ call.X.rows[i]["datetime"].weekday = 7
                  => call.out.rows[i]["day_of_week"] = 6

\* a Sunday that went through timestamp features, binning and vocab
DayOfWeekFromMondayWitness ==
    /\ call.f = "Pipeline"
    /\ call.create_vocab
    /\ Len(call.X.rows) > 0
    /\ call.X.rows[1]["datetime"].weekday = 7
    /\ call.out.rows[1]["day_of_week"] = 6

\* C14: the derived hour is 24 * (hour/24 + minute/1440 + second/86400 +
\* microsecond/864e8) of the time of day alone: hour * 60 + minute sixtieths
\* of an hour and second * 10^6 + microsecond microseconds; it is exactly 0
\* at midnight, never negative and below 24
HourFromTimeOfDay ==
    (FeaturesRan /\ ~call.discretize) =>
        \A i \in DOMAIN call.X.rows :
            LET dt == call.X.rows[i]["datetime"]
                hour == call.out.rows[i]["hour"]
            IN  /\ hour = [dtype |-> "float",
                           m |-> dt.hour * 60 + dt.minute,
                           rest |-> dt.second * MICROSECONDS_IN_SECOND
                                      + dt.microsecond]
                /\ (dt.hour = 0 /\ dt.minute = 0 /\ dt.second = 0
                        /\ dt.microsecond = 0) => (hour.m = 0 /\ hour.rest = 0)
                /\ hour.m >= 0 /\ hour.rest >= 0
                /\ hour.m < HOURS_IN_DAY * 60
                /\ hour.rest < 60 * MICROSECONDS_IN_SECOND

\* a Sunday midnight and a Wednesday 23:59:59.999999 in one table
HourFromTimeOfDayWitness ==
    /\ call.f = "CalendarTimestampFeatures"
    /\ Len(call.X.rows) = 2
    /\ call.X.rows[1]["datetime"] = Stamp(7, 0, 0, 0, 0)
    /\ call.out.rows[1]["hour"] = [dtype |-> "float", m |-> 0, rest |-> 0]
    /\ call.X.rows[2]["datetime"]
         = Stamp(3, 23, 59, 59, MICROSECONDS_IN_SECOND - 1)
    /\ call.out.rows[2]["hour"].m = 23 * 60 + 59

LazyReturned ==
    /\ call.f \in {"LazyFrame.timestamp_features", "LazyFrame.aggregate_events"}
    /\ ~call.collected

\* C17: on a lazy frame raw_to_aggregate and the LazyFrame accessor only
\* compose: what they return is lazy, its source is the table as given, and
\* its plan is the stages in order (timestamp features, discretization,
\* vocab, then aggregation for aggregate_events), none of them run
LazyStaysLazy ==
    LazyReturned =>
        /\ IsLazy(call.out)
        /\ call.out.source = call.X
        /\ [i \in DOMAIN call.out.plan |-> call.out.plan[i].f]
             = << "create_timestamp_features", "create_discretized_hour",
                  "create_vocab" >>
               \o (IF call.f = "LazyFrame.aggregate_events"
                   THEN << "aggregate_vocab" >> ELSE << >>)

\* aggregate_events on a lazy frame of two events, not collected
LazyStaysLazyWitness ==
    /\ LazyReturned
    /\ call.f = "LazyFrame.aggregate_events"
    /\ Len(call.X.rows) = 2
    /\ IsLazy(call.out)
    /\ Len(call.out.plan) = 4

\* C18: for the same events, grouping columns and minutes, the collected
\* result of the lazy aggregate_events and the result of the eager
\* aggregate_events (structured mode) hold the same set of records of group
\* key values, day_of_week, hour and num_events
EagerEqualsLazy ==
    (call.f = "LazyFrame.aggregate_events" /\ call.collected) =>
        LET eager == EagerAggregateEvents(call.X, call.by, "datetime",
                                          call.minutes, TRUE)
        IN  /\ eager.raised = ""
            /\ call.out.raised = ""
            /\ eager.kind = "long"
            /\ call.out.rows = eager.long.rows
            /\ Range(call.out.index) = Range(eager.long.index)
            /\ call.out.cols = eager.long.cols

\* two events of one id in two groups, aggregated by id and grp: two records
EagerEqualsLazyWitness ==
    /\ call.f = "LazyFrame.aggregate_events"
    /\ call.collected
    /\ call.by.names = << "id", "grp" >>
    /\ Len(call.X.rows) = 2
    /\ call.X.rows[1]["id"] = call.X.rows[2]["id"]
    /\ call.X.rows[1]["datetime"] = call.X.rows[2]["datetime"]
    /\ Cardinality(call.out.rows) = 2

\* group_by(keys) and the sum of num_events, on a long table: the total of
\* one key
Regrouped(long, key) ==
    LET members == {r \in long.rows : KeyOf(r, long.index) = key}
    IN  SumOver([r \in members |-> r["num_events"]], members)

\* C19: grouping the long table again by the same keys and summing
\* num_events gives, for every key, the total that the aggregation of the
\* raw input gives: the number of input events of that key
ReAggregationKeepsTotals ==
    ret.kind = "long" =>
        LET long == ret.long
            keys == {KeyOf(r, long.index) : r \in long.rows}
        IN  /\ \A key \in keys :
                  /\ Regrouped(long, key)
                       = Cardinality({i \in InputRows :
                                         EventKey(arg.rows[i], long) = key})
                  /\ \A r \in long.rows :
                        KeyOf(r, long.index) = key
                            => r["num_events"] = Regrouped(long, key)
            /\ \A i \in InputRows : EventKey(arg.rows[i], long) \in keys

\* raw_to_aggregate of two events of one key: one row, and the total is 2
ReAggregationKeepsTotalsWitness ==
    /\ ret.op = "raw_to_aggregate"
    /\ ret.kind = "long"
    /\ Len(arg.rows) = 2
    /\ Cardinality(ret.long.rows) = 1
    /\ \A r \in ret.long.rows :
          Regrouped(ret.long, KeyOf(r, ret.long.index)) = 2

\* the row index a scheme expects: group-key level(s), then day_of_week and
\* hour (structured) or vocab (flat)
WellFormedIndex(index, multiindex) ==
    LET n == Len(index)
    IN  IF multiindex
        THEN n >= 3 /\ SubSeq(index, n - 1, n) = << "day_of_week", "hour" >>
        ELSE n >= 2 /\ index[n] = "vocab"

\* C20: the wide pivot of a long table whose row index lacks the structure
\* of the selected scheme fails with an error and returns no matrix
MalformedIndexFails ==
    (call.f = "LongToWide" /\ ~WellFormedIndex(call.X.index, call.multiindex)) =>
        /\ call.out.raised # ""
        /\ call.out.columns = << >>

\* C21: for an input of exactly 168 values wide_to_long_format returns 168
\* rows in input order with the columns day_of_week, hour, value; row i (from
\* 0) has hour i mod 24, the i-th value, and day i div 24 for a Monday start
\* and ((i div 24) + 1) mod 7 for a Sunday start; every (day, hour) pair of
\* 0..6 x 0..23 is on exactly one row
WideToLongRows ==
    (call.f = "wide_to_long_format" /\ Len(call.values) = 168) =>
        /\ call.out.raised = ""
        /\ call.out.cols = << "day_of_week", "hour", "value" >>
        /\ Len(call.out.rows) = 168
        /\ \A i \in 0 .. 167 :
              /\ call.out.rows[i + 1].hour = i % 24
              /\ call.out.rows[i + 1].value = call.values[i + 1]
              /\ call.out.rows[i + 1].day_of_week =
                    IF call.monday_start THEN i \div 24
                    ELSE ((i \div 24) + 1) % 7
        /\ \A d \in 0 .. 6, h \in 0 .. 23 :
              Cardinality({ i \in 1 .. 168 :
                              /\ call.out.rows[i].day_of_week = d
                              /\ call.out.rows[i].hour = h }) = 1

\* a 7 x 24 matrix converted with a Sunday start: the first value of its last
\* row is on day 0, hour 0
WideToLongRowsWitness ==
    /\ call.f = "wide_to_long_format"
    /\ ~call.monday_start
    /\ Len(call.values) = 168
    /\ call.out.raised = ""
    /\ call.out.rows[145] = [day_of_week |-> 0, hour |-> 0, value |-> 701]

\* C22: wide_to_long_format raises its ValueError exactly when the input does
\* not have 168 values, and dataframe_to_long_format exactly when the frame
\* does not have 168 columns, shorter or longer; nothing is returned then
LengthErrorIffNot168 ==
    /\ call.f = "wide_to_long_format" =>
          /\ (call.out.raised # "") <=> (Len(call.values) # 168)
          /\ Len(call.values) # 168 =>
                /\ call.out.raised = "ValueError: Expected 168 values"
                /\ call.out.cols = << >> /\ call.out.rows = << >>
    /\ call.f = "dataframe_to_long_format" =>
          /\ (call.out.raised = "ValueError: Expected 168 columns")
                <=> (Len(call.X.cols) # 168)
          /\ Len(call.X.cols) # 168 =>
                call.out.cols = << >> /\ call.out.rows = << >>
          /\ (Len(call.X.cols) = 168 /\ Len(call.X.rows) > 0) =>
                /\ call.out.raised = ""
                /\ Len(call.out.rows) = 168 * Len(call.X.rows)

\* a frame of two rows and 169 columns is refused
LengthErrorIffNot168Witness ==
    /\ call.f = "dataframe_to_long_format"
    /\ Len(call.X.cols) = 169
    /\ Len(call.X.rows) = 2
    /\ call.out.raised = "ValueError: Expected 168 columns"
    /\ call.out.rows = << >>

\* the frame has the columns of the long format
HasLongColumns(X) ==
    /\ {"day_of_week", "hour"} \subseteq Range(X.cols)
    /\ ("value" \in Range(X.cols) \/ "num_events" \in Range(X.cols))

\* C23: create_calendar_chart classifies a frame in this order: with the
\* columns day_of_week, hour and value or num_events it is charted as it is
\* (num_events renamed to value only when there is no value column); else
\* with exactly 168 columns it is converted from wide format (one row: the
\* columns day_of_week, hour, value; several rows: a first column named
\* after the index, or "group"); else ValueError is raised and there is no
\* chart
ChartClassification ==
    (call.f = "create_calendar_chart" /\ IsFrame(call.X)) =>
        LET X == call.X
            data == call.out.chart.data
        IN  IF HasLongColumns(X)
            THEN /\ call.out.raised = ""
                 /\ Len(data.rows) = Len(X.rows)
                 /\ \A k \in DOMAIN X.cols :
                       LET name == IF X.cols[k] = "num_events"
                                      /\ "value" \notin Range(X.cols)
                                   THEN "value" ELSE X.cols[k]
                       IN  /\ data.cols[k] = name
                           /\ \A i \in DOMAIN X.rows :
                                 data.rows[i][name] = X.rows[i][X.cols[k]]
            ELSE IF Len(X.cols) = 168
            THEN /\ Len(X.rows) = 1 =>
                       /\ call.out.raised = ""
                       /\ data.cols = << "day_of_week", "hour", "value" >>
                       /\ Len(data.rows) = 168
                 /\ Len(X.rows) > 1 =>
                       /\ call.out.raised = ""
                       /\ data.cols = << IF X.index_name # "" THEN X.index_name
                                         ELSE "group",
                                         "day_of_week", "hour", "value" >>
                       /\ Len(data.rows) = 168 * Len(X.rows)
            ELSE /\ call.out.raised = "ValueError: DataFrame must have either"
                 /\ call.out.chart = NoChart

\* a frame of 168 columns that has the columns of the long format is charted
\* as it is, with its two rows
ChartClassificationWitness ==
    /\ call.f = "create_calendar_chart"
    /\ IsFrame(call.X)
    /\ Len(call.X.cols) = 168
    /\ HasLongColumns(call.X)
    /\ call.out.raised = ""
    /\ Len(call.out.chart.data.rows) = 2

\* the stages of a transform, in the order the claim gives them
ExpectedStages(flat, widen) ==
    << "timestamp_features", "binning" >>
    \o (IF flat THEN << "vocab_creation" >> ELSE << >>)
    \o << "aggregation" >>
    \o (IF widen THEN << "widen" >> ELSE << >>)

SlotsOf(minutes) == MINUTES_IN_DAY \div minutes

\* C25 as stated: the time component of every token of the long table is a
\* slot index in 0 .. (1440 / minutes) - 1, and the day component is in 0..6
TokenTimeIsSlotIndex ==
    (ret.kind = "long" /\ Contains(ret.long.index, "hour")) =>
        \A r \in ret.long.rows :
            /\ r["day_of_week"] \in 0 .. 6
            /\ r["hour"].m % 60 = 0
            /\ (r["hour"].m \div 60) \in 0 .. (SlotsOf(self.minutes) - 1)

\* C25, amended: the time component of every token is the hour at which a
\* slot starts, (minutes / 60) * k for a slot index k in
\* 0 .. (1440 / minutes) - 1, as a number in the structured table and as its
\* text in the flat one; the day component is in 0..6
TokenTimeIsSlotStart ==
    ret.kind = "long" =>
        \A r \in ret.long.rows :
            IF Contains(ret.long.index, "hour")
            THEN /\ r["day_of_week"] \in 0 .. 6
                 /\ r["hour"].m % self.minutes = 0
                 /\ (r["hour"].m \div self.minutes) \in 0 .. (SlotsOf(self.minutes) - 1)
            ELSE \E d \in 0 .. 6, k \in 0 .. (SlotsOf(self.minutes) - 1) :
                    r["vocab"] = VocabToken(d,
                        [dtype |-> IF self.minutes % 60 = 0 THEN "int" ELSE "float",
                         m |-> k * self.minutes])

\* with two-hour slots the event of Friday 13:55 has the token (4, 12): slot
\* 6 of 0..11, named by its start hour 12
TokenTimeIsSlotStartWitness ==
    /\ ret.kind = "long"
    /\ self.minutes = 120
    /\ Contains(ret.long.index, "hour")
    /\ \E r \in ret.long.rows :
          r["day_of_week"] = 4 /\ r["hour"] = [dtype |-> "int", m |-> 720]

\* C26: create_vocab returns what the zfill(2) form of its docstring returns,
\* for every day_of_week and every hour value that the binning can produce,
\* the fractional bin starts included
VocabIsZeroFilled ==
    call.f = "create_vocab" =>
        call.out = create_vocab_zfill(call.X, "hour", "day_of_week")

\* the input of the timestamp feature extractor has a column of this name
ExtractorRanOver(name) ==
    call.f = "CalendarTimestampFeatures" /\ Contains(call.X.cols, name)

FailedFitKeepsStages ==
    [][(ret'.op = "fit" /\ ret'.raised # "") =>
          /\ features' = features
          /\ aggregation' = aggregation
          /\ widen_transformer' = widen_transformer]_vars

\* the rows of the aggregated input that fall in the group of an output row
GroupMembers(r) ==
    { i \in DOMAIN call.X.rows :
        KeyOf(call.X.rows[i], call.groups) = KeyOf(r, call.groups) }

\* C29: aggregate_vocab applied to an aggregated table returns one row for
\* every group of its rows; num_events is the number of aggregated rows of
\* the group, whatever their num_events was, and the column of cols is the
\* sum of its values over these rows
ReaggregationCountsRows ==
    call.f = "aggregate_vocab" =>
        /\ call.out.raised = ""
        /\ \A i \in DOMAIN call.X.rows :
              \E r \in call.out.rows : i \in GroupMembers(r)
        /\ \A r \in call.out.rows :
              /\ GroupMembers(r) # {}
              /\ r["num_events"] = Cardinality(GroupMembers(r))
              /\ r["amt"] = SumOver([i \in GroupMembers(r) |-> call.X.rows[i]["amt"]],
                                    GroupMembers(r))

\* one aggregated row that counted two events of amt 3 each is counted as
\* one event, and its amt of 6 is kept
ReaggregationCountsRowsWitness ==
    /\ call.f = "aggregate_vocab"
    /\ Len(call.X.rows) = 1
    /\ call.X.rows[1]["num_events"] = 2
    /\ \E r \in call.out.rows : r["num_events"] = 1 /\ r["amt"] = 6

\* C30: the wide matrix of a widening transform is, in its rows, columns and
\* cells, the one the same transformer returns with cols=None, for every
\* value of cols; each cell is 0 or the num_events of a row of the
\* aggregation, while the aggregation has summed the columns of cols in its
\* long table
WideHoldsOnlyCounts ==
    ret.kind = "wide" =>
        LET long == aggregate_vocab(PipelineTransform(features.steps, arg),
                                    aggregation.groups, aggregation.cols)
            none == [kind |-> "None", names |-> << >>]
        IN  /\ ret.wide = FitThenTransform([self EXCEPT !.cols = none], arg).wide
            /\ \A g \in ret.wide.rows : \A i \in DOMAIN ret.wide.columns :
                  \/ ret.wide.cells[g][i] = 0
                  \/ \E r \in long.rows : ret.wide.cells[g][i] = r["num_events"]
            /\ self.cols.kind = "list" =>
                  /\ long.cols = << "num_events", "amt" >>
                  /\ \A r \in long.rows : r["amt"] = 3 * r["num_events"]

\* with cols=["amt"], two events of one slot give a cell of 2 where the
\* aggregation has summed an amt of 6
WideHoldsOnlyCountsWitness ==
    /\ ret.kind = "wide"
    /\ self.cols.kind = "list"
    /\ Len(arg.rows) = 2
    /\ \E g \in ret.wide.rows : \E i \in DOMAIN ret.wide.columns :
          ret.wide.cells[g][i] = 2

====
